---- MODULE Spec2Model ----
(***************************************************************************)
(* A model of downloader-pc-cli.py: the playlist conversion flow           *)
(* (menu choice "1": initialize_spotify_client, convert_spotify_playlist,  *)
(* download_youtube) and the pure function sanitize_filename.              *)
(*                                                                         *)
(* Python strings are modelled as sequences of one-character strings, so   *)
(* that regular-expression matching, sanitization and path joining are     *)
(* computed character by character, as the code computes them.             *)
(***************************************************************************)
EXTENDS Integers, Sequences, FiniteSets, TLC

(***************************************************************************)
(* Bounds of the model.                                                    *)
(***************************************************************************)
\* The most items (tracks or removed entries) a playlist of the catalog holds.
MaxItems == 3
\* The most pages the catalog serves a playlist in.
MaxPages == 2
\* The most conversions (menu choice "1" reaching convert_spotify_playlist).
MaxRuns == 2
\* The longest string sanitize_filename is applied to in SpecSanitize.
MaxLen == 3

(***************************************************************************)
(* Characters and strings.                                                 *)
(***************************************************************************)
Lower == {"a", "b", "c", "d", "e", "f", "g", "h", "i", "j", "k", "l", "m",
          "n", "o", "p", "q", "r", "s", "t", "u", "v", "w", "x", "y", "z"}
Upper == {"A", "B", "C", "D", "E", "F", "G", "H", "I", "J", "K", "L", "M",
          "N", "O", "P", "Q", "R", "S", "T", "U", "V", "W", "X", "Y", "Z"}
Digit == {"0", "1", "2", "3", "4", "5", "6", "7", "8", "9"}

\* The character class [a-zA-Z0-9] of the playlist pattern.
AlNum == Lower \cup Upper \cup Digit

\* The character class [<>:"/\\|?*] of sanitize_filename.
InvalidChars == {"<", ">", ":", "\"", "/", "\\", "|", "?", "*"}

\* Whether `pre` is a prefix of `s` at position `p` (1-based).
MatchesAt(s, p, pre) ==
    /\ p >= 1
    /\ p + Len(pre) - 1 <= Len(s)
    /\ \A k \in 1..Len(pre) : s[p + k - 1] = pre[k]

\* A variant of sanitize_filename whose character class lacks the asterisk.
sanitize_filename_without_star(name) ==
    [k \in 1..Len(name) |->
        IF name[k] \in InvalidChars \ {"*"} THEN "_" ELSE name[k]]

\* re.sub(r'[<>:"/\\|?*]', "_", name)
sanitize_filename(name) ==
    [k \in 1..Len(name) |-> IF name[k] \in InvalidChars THEN "_" ELSE name[k]]

\* os.path.join(a, b) on a POSIX system.
PathJoin(a, b) ==
    IF MatchesAt(b, 1, <<"/">>) THEN b
    ELSE IF a = <<>> \/ a[Len(a)] = "/" THEN a \o b
    ELSE a \o <<"/">> \o b

(***************************************************************************)
(* The playlist pattern of convert_spotify_playlist:                       *)
(*     re.search(r"(?:playlist/|playlist:)([a-zA-Z0-9]+)", url)            *)
(***************************************************************************)
PlaylistSlash == <<"p", "l", "a", "y", "l", "i", "s", "t", "/">>
PlaylistColon == <<"p", "l", "a", "y", "l", "i", "s", "t", ":">>

\* A variant of MatchStarts for the pattern with ([a-zA-Z0-9]*): the
\* identifier may be empty.
MatchStartsEmptyId(url) ==
    {p \in 1..Len(url) :
        MatchesAt(url, p, PlaylistSlash) \/ MatchesAt(url, p, PlaylistColon)}

\* The positions at which the whole pattern matches: one of the two literals,
\* then at least one character of [a-zA-Z0-9].
MatchStarts(url) ==
    {p \in 1..Len(url) :
        /\ MatchesAt(url, p, PlaylistSlash) \/ MatchesAt(url, p, PlaylistColon)
        /\ p + 9 <= Len(url)
        /\ url[p + 9] \in AlNum}

\* The truth value of `match`: re.search returns None when nothing matches.
ReSearch(url) == MatchStarts(url) # {}

\* match.group(1): the greedy run of [a-zA-Z0-9] after the leftmost match.
MatchGroup1(url) ==
    LET p == CHOOSE q \in MatchStarts(url) : \A r \in MatchStarts(url) : q <= r
        first == p + 9
        ends == {e \in (first - 1)..Len(url) : \A k \in first..e : url[k] \in AlNum}
        last == CHOOSE e \in ends : \A f \in ends : f <= e
    IN SubSeq(url, first, last)

(***************************************************************************)
(* The catalog service (spotipy) as the program sees it: one playlist,     *)
(* served as a chain of at most MaxPages pages.  A page's "next" is the    *)
(* cursor of the page after it (the offset of its first item, plus one),   *)
(* or None (0) on the last page.  How the items are cut into pages is the  *)
(* catalog's choice, made anew at every call.                              *)
(***************************************************************************)
\* item["track"] of a removed entry: None.
None == [none |-> TRUE]

TrackA == [name |-> <<"x">>, artists |-> << [name |-> <<"A">>] >>]
TrackB == [name |-> <<"y", "/", "z">>,
           artists |-> << [name |-> <<"A">>], [name |-> <<"B">>] >>]

\* The items a page may hold.
Items == {[track |-> TrackA], [track |-> TrackB], [track |-> None]}

\* The playlists the catalog may hold: at most MaxItems items.
Playlists == UNION {[1..n -> Items] : n \in 0..MaxItems}

\* The pages the catalog may answer with when asked for the items after the
\* first `offset` ones, having `pagesLeft` pages left to serve them in: any
\* number of the remaining items (none included); the last page, and only
\* the last, has no cursor.
Pages(playlist, offset, pagesLeft) ==
    {[items |-> SubSeq(playlist, offset + 1, offset + n),
      next |-> IF last THEN 0 ELSE offset + n + 1] :
        <<n, last>> \in
            {x \in (0..(Len(playlist) - offset)) \X BOOLEAN :
                /\ x[2] => offset + x[1] = Len(playlist)
                /\ ~x[2] => pagesLeft > 1}}

\* The identifier the catalog knows, the playlist's name, the output root.
KnownId == <<"a", "1">>
PlaylistName == <<"M", "i", "x", ":", " ", "1">>
OutputPath == <<"o", "u", "t">>

\* What the user may type at "Enter Spotify Playlist URL: ".
Urls ==
    { <<"h", "t", "t", "p", "s", ":", "/", "/", "o", ".", "c", "o", "/",
        "p", "l", "a", "y", "l", "i", "s", "t", "/", "a", "1", "?", "s", "i">>,
      <<"s", "p", "o", "t", "i", "f", "y", ":",
        "p", "l", "a", "y", "l", "i", "s", "t", ":", "z", "9">>,
      <<"p", "l", "a", "y", "l", "i", "s", "t", "/", "?",
        "p", "l", "a", "y", "l", "i", "s", "t", ":", "a", "1", "x">>,
      <<"p", "l", "a", "y", "l", "i", "s", "t", "/">>,
      <<"p", "l", "a", "y", "l", "i", "s", "t", ":", "-", "a", "1">>,
      <<"o", ".", "c", "o", "/", "a", "l", "b", "u", "m", "/", "a", "1">>,
      <<>> }

(***************************************************************************)
(* Track queries and file names (convert_spotify_playlist, lines 196-199). *)
(***************************************************************************)
RECURSIVE JoinNames(_)
\* ", ".join([a["name"] for a in artists])
JoinNames(artists) ==
    IF artists = <<>> THEN <<>>
    ELSE IF Len(artists) = 1 THEN artists[1].name
    ELSE artists[1].name \o <<",", " ">> \o JoinNames(Tail(artists))

\* query = f"{artist} - {title}"
Query(track) == JoinNames(track.artists) \o <<" ", "-", " ">> \o track.name

Mp3 == <<".", "m", "p", "3">>

\* full_path = os.path.join(output_dir, sanitize_filename(playlist["name"]))
FullPath(output_dir, playlistName) ==
    PathJoin(output_dir, sanitize_filename(playlistName))

\* A variant of Filename that does not sanitize the query.
FilenameUnsanitized(dir, query) == PathJoin(dir, query \o Mp3)

\* A variant of Filename that leaves the extension out.
FilenameWithoutExtension(dir, query) == PathJoin(dir, sanitize_filename(query))

\* filename = os.path.join(full_path, sanitize_filename(f"{query}.mp3"))
Filename(dir, query) == PathJoin(dir, sanitize_filename(query \o Mp3))

(***************************************************************************)
(* The external downloader (yt-dlp) as the program sees it.  It writes     *)
(* <output_path>/%(title)s.%(ext)s, where the title is the one the remote  *)
(* site reports: the sanitized query, or some other title.                 *)
(***************************************************************************)
RemoteTitles(query) == {sanitize_filename(query), <<"r">>}

\* The ways the try block of download_youtube may end: the process exits with
\* code 0 (and has written its file), it exits with a non-zero code, or an
\* exception is raised (by the progress display or while launching it).
ProcessResults == {"exit0", "nonzero", "exception"}

\* The files that may lie in the playlist's directory before the first run.
PreexistingPool ==
    {PathJoin(FullPath(OutputPath, PlaylistName), sanitize_filename(Query(t)) \o Mp3) :
        t \in {TrackA, TrackB}}

(***************************************************************************)
(* State.                                                                  *)
(***************************************************************************)
VARIABLES
    \* menu(): the configuration and the last choice read
    config, choice,
    \* where the program is: "menu" (waiting for a choice), "playlist" (about
    \* to call spotify.playlist), "paging" (the pagination loop), "loop" (the
    \* head of the per-track loop), "download" (inside download_youtube),
    \* "returned" (convert_spotify_playlist has just returned)
    pc,
    \* the file system: the files and the directories that exist
    files, dirs,
    \* convert_spotify_playlist's parameter url and its locals
    url, match_id, full_path, tracks, next, i,
    successful_downloads, skipped_downloads, failed_downloads,
    \* what log() printed during the current operation
    console,
    \* the playlist the catalog holds, and the files present at the start
    catalog, preexisting,
    \* history of the current call of convert_spotify_playlist: catalog calls
    \* made, items the catalog served, os.makedirs calls, os.path.exists
    \* calls, download_youtube calls (the track's index and how the process
    \* ended), whether a catalog call raised
    catalogCalls, served, mkdirs, existChecks, outcomes, catalogFailed,
    \* history of the session: calls of convert_spotify_playlist, calls that
    \* reached the summary, whether every download so far succeeded and wrote
    \* the file named sanitize(query) + ".mp3"
    runs, completed, faithful,
    \* the input and the successive outputs of sanitize_filename (SpecSanitize)
    sanIn, sanOut

vars == <<config, choice, url, pc, files, dirs, match_id, full_path, tracks,
          next, i, successful_downloads, skipped_downloads, failed_downloads,
          console, catalog, preexisting, catalogCalls, served, mkdirs, existChecks,
          outcomes, catalogFailed, runs, completed, faithful, sanIn, sanOut>>

\* Groups of variables, for UNCHANGED.
menuVars == <<config, choice>>
diskVars == <<files, dirs>>
localVars == <<url, match_id, full_path, tracks, next, i>>
counterVars == <<successful_downloads, skipped_downloads, failed_downloads>>
envVars == <<catalog, preexisting>>
callHistory == <<catalogCalls, served, mkdirs, existChecks, outcomes, catalogFailed>>
sessionHistory == <<runs, completed, faithful>>
sanVars == <<sanIn, sanOut>>

\* log(message, level): one line of the console.
Log(msg, level) == [msg |-> msg, level |-> level]

\* A variant of SummaryLine that prints the skipped count twice.
SummaryLineSkippedTwice(s, k, f) ==
    [msg |-> "DownloadComplete", level |-> "info", counts |-> <<s, k, k>>]

\* The summary line of lines 221-224, with the three counts it prints.
SummaryLine(s, k, f) ==
    [msg |-> "DownloadComplete", level |-> "info", counts |-> <<s, k, f>>]

\* The parameter, the locals and the history of convert_spotify_playlist
\* outside a call of it.
FreshCall ==
    /\ url' = <<>>
    /\ match_id' = <<>>
    /\ full_path' = <<>>
    /\ tracks' = <<>>
    /\ next' = 0
    /\ i' = 0
    /\ successful_downloads' = 0
    /\ skipped_downloads' = 0
    /\ failed_downloads' = 0
    /\ catalogCalls' = 0
    /\ served' = 0
    /\ mkdirs' = 0
    /\ existChecks' = 0
    /\ outcomes' = <<>>
    /\ catalogFailed' = FALSE

Init ==
    /\ config \in [client_id : {<<>>, <<"c">>}, client_secret : {<<>>, <<"s">>}]
    /\ choice = ""
    /\ url = <<>>
    /\ pc = "menu"
    /\ files \in SUBSET PreexistingPool
    /\ dirs = IF files = {} THEN {} ELSE {OutputPath, FullPath(OutputPath, PlaylistName)}
    /\ match_id = <<>>
    /\ full_path = <<>>
    /\ tracks = <<>>
    /\ next = 0
    /\ i = 0
    /\ successful_downloads = 0
    /\ skipped_downloads = 0
    /\ failed_downloads = 0
    /\ console = <<>>
    /\ catalog \in Playlists
    /\ preexisting = files
    /\ catalogCalls = 0
    /\ served = 0
    /\ mkdirs = 0
    /\ existChecks = 0
    /\ outcomes = <<>>
    /\ catalogFailed = FALSE
    /\ runs = 0
    /\ completed = 0
    /\ faithful = TRUE
    /\ sanIn = <<>>
    /\ sanOut = <<>>

(***************************************************************************)
(* menu(), choice "1" and choice "3".                                      *)
(***************************************************************************)
\* A variant of initialize_spotify_client that tests the client id alone.
initialize_spotify_client_id_only(cfg, raises) ==
    IF cfg.client_id = <<>>
    THEN [spotify |-> FALSE, log |-> <<Log("CredentialsNotSet", "error")>>]
    ELSE IF raises
    THEN [spotify |-> FALSE, log |-> <<Log("SpotifyClientError", "error")>>]
    ELSE [spotify |-> TRUE, log |-> <<>>]

\* initialize_spotify_client(config): the client (TRUE) or None (FALSE), and
\* the line it logs.  `raises` says whether building the client raises.
initialize_spotify_client(cfg, raises) ==
    IF cfg.client_id = <<>> \/ cfg.client_secret = <<>>
    THEN [spotify |-> FALSE, log |-> <<Log("CredentialsNotSet", "error")>>]
    ELSE IF raises
    THEN [spotify |-> FALSE, log |-> <<Log("SpotifyClientError", "error")>>]
    ELSE [spotify |-> TRUE, log |-> <<>>]

\* Choice "1" when initialize_spotify_client returns None: `continue`.
MenuConvertRefused ==
    /\ pc = "menu"
    /\ \E raises \in BOOLEAN :
        LET client == initialize_spotify_client(config, raises) IN
        /\ ~client.spotify
        /\ choice' = "1"
        /\ console' = client.log
    /\ UNCHANGED <<config, pc, diskVars, localVars, counterVars, envVars,
                   callHistory, sessionHistory, sanVars>>

\* Choice "1" with a client: the url is read and convert_spotify_playlist is
\* called, up to its first catalog call (lines 155-158).
MenuConvert ==
    /\ pc = "menu"
    /\ runs < MaxRuns
    /\ initialize_spotify_client(config, FALSE).spotify
    /\ choice' = "1"
    /\ runs' = runs + 1
    /\ \E u \in Urls :
        /\ url' = u
        /\ IF ~ReSearch(u)
           THEN /\ match_id' = <<>>
                /\ console' = <<Log("InvalidUrl", "error")>>
                /\ pc' = "returned"
           ELSE /\ match_id' = MatchGroup1(u)
                /\ console' = <<>>
                /\ pc' = "playlist"
    /\ UNCHANGED <<config, diskVars, full_path, tracks, next, i, counterVars,
                   envVars, callHistory, completed, faithful, sanVars>>

\* configure_spotify_api(config): choice "3".
MenuConfigureSpotifyApi ==
    /\ pc = "menu"
    /\ choice' = "3"
    /\ \E <<cid, secret>> \in {<< <<"c">>, <<"s">> >>, << <<>>, <<"s">> >>,
                               << <<"c">>, <<>> >>} :
        IF cid # <<>> /\ secret # <<>>
        THEN /\ config' = [client_id |-> cid, client_secret |-> secret]
             /\ console' = <<Log("CredentialsSaved", "success")>>
        ELSE /\ config' = config
             /\ console' = <<Log("InvalidCredentials", "error")>>
    /\ UNCHANGED <<pc, diskVars, localVars, counterVars, envVars,
                   callHistory, sessionHistory, sanVars>>

(***************************************************************************)
(* convert_spotify_playlist: the catalog calls (lines 160-176).            *)
(***************************************************************************)
\* The except clause of lines 226-227: one error line, and the call returns.
Abort ==
    /\ console' = Append(console, Log("ErrorConverting", "error"))
    /\ pc' = "returned"

\* A variant of Extend that keeps the last page only.
ExtendReplaces(list, items) == items

\* tracks.extend(page["items"])
Extend(list, items) == list \o items

\* spotify.playlist(id), then the directory (lines 161-169).  The call raises
\* for an identifier the catalog does not know, and may raise for any other.
ResolvePlaylist ==
    /\ pc = "playlist"
    /\ catalogCalls' = catalogCalls + 1
    /\ \E callRaises \in BOOLEAN, makedirsRaises \in BOOLEAN :
        IF callRaises \/ match_id # KnownId
        THEN /\ catalogFailed' = TRUE
             /\ Abort
             /\ UNCHANGED <<diskVars, full_path, tracks, next, mkdirs, served>>
        ELSE \E page \in Pages(catalog, 0, MaxPages) :
             /\ catalogFailed' = FALSE
             /\ served' = Len(page.items)
             /\ full_path' = FullPath(OutputPath, PlaylistName)
             /\ mkdirs' = mkdirs + 1
             /\ IF makedirsRaises
                THEN /\ Abort
                     /\ UNCHANGED <<diskVars, tracks, next>>
                ELSE /\ dirs' = dirs \cup {OutputPath, full_path'}
                     /\ files' = files
                     /\ console' = console \o <<Log("Playlist", "info"),
                                                Log("OutputDirectory", "info")>>
                     /\ tracks' = page.items
                     /\ next' = page.next
                     /\ pc' = "paging"
    /\ UNCHANGED <<menuVars, url, match_id, i, counterVars, envVars, existChecks,
                   outcomes, sessionHistory, sanVars>>

\* A variant of NextPage that leaves the pagination loop when the call
\* raises, and goes on with the tracks fetched so far.
NextPageBreaksOnError ==
    /\ pc = "paging"
    /\ next # 0
    /\ catalogCalls' = catalogCalls + 1
    /\ \E callRaises \in BOOLEAN :
        IF callRaises
        THEN /\ catalogFailed' = TRUE
             /\ next' = 0
             /\ UNCHANGED <<tracks, served, console, pc>>
        ELSE \E page \in Pages(catalog, next - 1, MaxPages - catalogCalls) :
             /\ catalogFailed' = FALSE
             /\ served' = served + Len(page.items)
             /\ tracks' = Extend(tracks, page.items)
             /\ next' = page.next
             /\ UNCHANGED <<console, pc>>
    /\ UNCHANGED <<menuVars, diskVars, url, match_id, full_path, i, counterVars,
                   envVars, mkdirs, existChecks, outcomes, sessionHistory, sanVars>>

\* One turn of `while playlist["tracks"]["next"]` (lines 172-174).
NextPage ==
    /\ pc = "paging"
    /\ next # 0
    /\ catalogCalls' = catalogCalls + 1
    /\ \E callRaises \in BOOLEAN :
        IF callRaises
        THEN /\ catalogFailed' = TRUE
             /\ Abort
             /\ UNCHANGED <<tracks, next, served>>
        ELSE \E page \in Pages(catalog, next - 1, MaxPages - catalogCalls) :
             /\ catalogFailed' = FALSE
             /\ served' = served + Len(page.items)
             /\ tracks' = Extend(tracks, page.items)
             /\ next' = page.next
             /\ UNCHANGED <<console, pc>>
    /\ UNCHANGED <<menuVars, diskVars, url, match_id, full_path, i, counterVars,
                   envVars, mkdirs, existChecks, outcomes, sessionHistory, sanVars>>

\* The pagination loop ends; the counters are set up (lines 172, 176-191).
PagingDone ==
    /\ pc = "paging"
    /\ next = 0
    /\ console' = Append(console, Log("Found", "info"))
    /\ successful_downloads' = 0
    /\ skipped_downloads' = 0
    /\ failed_downloads' = 0
    /\ i' = 1
    /\ pc' = "loop"
    /\ UNCHANGED <<menuVars, diskVars, url, match_id, full_path, tracks, next,
                   envVars, callHistory, sessionHistory, sanVars>>

(***************************************************************************)
(* convert_spotify_playlist: the per-track loop (lines 191-224).           *)
(***************************************************************************)
\* `not track`
IsNull(track) == track = None

\* os.path.exists(filename)
Exists(filename) == filename \in files

\* A variant of TrackNull with `break` for `continue`.
TrackNullBreaks ==
    /\ pc = "loop"
    /\ i <= Len(tracks)
    /\ IsNull(tracks[i].track)
    /\ i' = Len(tracks) + 1
    /\ UNCHANGED <<menuVars, pc, diskVars, url, match_id, full_path, tracks, next,
                   counterVars, console, envVars, callHistory, sessionHistory,
                   sanVars>>

\* A removed entry: `continue` (lines 192-194).
TrackNull ==
    /\ pc = "loop"
    /\ i <= Len(tracks)
    /\ IsNull(tracks[i].track)
    /\ i' = i + 1
    /\ UNCHANGED <<menuVars, pc, diskVars, url, match_id, full_path, tracks, next,
                   counterVars, console, envVars, callHistory, sessionHistory,
                   sanVars>>

\* The file is there: the track is skipped (lines 196-205).
TrackSkip ==
    /\ pc = "loop"
    /\ i <= Len(tracks)
    /\ ~IsNull(tracks[i].track)
    /\ existChecks' = existChecks + 1
    /\ Exists(Filename(full_path, Query(tracks[i].track)))
    /\ console' = Append(console, Log("Skipping", "warning"))
    /\ skipped_downloads' = skipped_downloads + 1
    /\ i' = i + 1
    /\ UNCHANGED <<menuVars, pc, diskVars, url, match_id, full_path, tracks, next,
                   successful_downloads, failed_downloads, envVars,
                   catalogCalls, served, mkdirs, outcomes, catalogFailed,
                   sessionHistory, sanVars>>

\* The file is not there: download_youtube is called (lines 196-210).
TrackDownload ==
    /\ pc = "loop"
    /\ i <= Len(tracks)
    /\ ~IsNull(tracks[i].track)
    /\ existChecks' = existChecks + 1
    /\ ~Exists(Filename(full_path, Query(tracks[i].track)))
    /\ console' = Append(console, Log("Downloading", "info"))
    /\ pc' = "download"
    /\ UNCHANGED <<menuVars, diskVars, localVars, counterVars, envVars,
                   catalogCalls, served, mkdirs, outcomes, catalogFailed,
                   sessionHistory, sanVars>>

\* A variant of download_youtube that does not look at the exit code.
download_youtube_ignores_exit_code(result) ==
    CASE result = "exit0" -> [success |-> TRUE, log |-> <<>>]
      [] result = "nonzero" -> [success |-> TRUE, log |-> <<>>]
      [] result = "exception" ->
            [success |-> FALSE, log |-> <<Log("DownloadError", "error")>>]

\* download_youtube's answer for a way the process ended (lines 123-151):
\* what it returns and the line it logs.
download_youtube(result) ==
    CASE result = "exit0" -> [success |-> TRUE, log |-> <<>>]
      [] result = "nonzero" ->
            [success |-> FALSE, log |-> <<Log("DownloadFailed", "error")>>]
      [] result = "exception" ->
            [success |-> FALSE, log |-> <<Log("DownloadError", "error")>>]

\* download_youtube returns and the caller counts (lines 208-218).
DownloadReturns ==
    /\ pc = "download"
    /\ \E result \in ProcessResults, title \in RemoteTitles(Query(tracks[i].track)) :
        LET r == download_youtube(result)
            written == PathJoin(full_path, title \o Mp3)
        IN
        /\ files' = IF result = "exit0" THEN files \cup {written} ELSE files
        /\ outcomes' = Append(outcomes, [index |-> i, result |-> result])
        /\ faithful' = (/\ faithful
                        /\ result = "exit0"
                        /\ title = sanitize_filename(Query(tracks[i].track)))
        /\ IF r.success
           THEN /\ console' = console \o r.log \o <<Log("Downloaded", "success")>>
                /\ successful_downloads' = successful_downloads + 1
                /\ failed_downloads' = failed_downloads
           ELSE /\ console' = console \o r.log \o <<Log("Failed", "error")>>
                /\ failed_downloads' = failed_downloads + 1
                /\ successful_downloads' = successful_downloads
    /\ i' = i + 1
    /\ pc' = "loop"
    /\ UNCHANGED <<menuVars, dirs, url, match_id, full_path, tracks, next,
                   skipped_downloads, envVars, catalogCalls, served, mkdirs,
                   existChecks, catalogFailed, runs, completed, sanVars>>

\* The loop is over: the summary (lines 220-224), and the call returns.
Summary ==
    /\ pc = "loop"
    /\ i > Len(tracks)
    /\ console' = Append(console, SummaryLine(successful_downloads,
                                              skipped_downloads, failed_downloads))
    /\ completed' = completed + 1
    /\ pc' = "returned"
    /\ UNCHANGED <<menuVars, diskVars, localVars, counterVars, envVars,
                   callHistory, runs, faithful, sanVars>>

\* Back in menu(): the call's frame is gone and the menu is printed again
\* (lines 382, 365-374).
ConvertReturns ==
    /\ pc = "returned"
    /\ pc' = "menu"
    /\ FreshCall
    /\ console' = <<>>
    /\ UNCHANGED <<menuVars, diskVars, envVars, sessionHistory, sanVars>>

Next ==
    \/ MenuConvertRefused
    \/ MenuConvert
    \/ MenuConfigureSpotifyApi
    \/ ResolvePlaylist
    \/ NextPage
    \/ PagingDone
    \/ TrackNull
    \/ TrackSkip
    \/ TrackDownload
    \/ DownloadReturns
    \/ Summary
    \/ ConvertReturns

Spec == Init /\ [][Next]_vars

(***************************************************************************)
(* sanitize_filename on its own: every string of at most MaxLen characters *)
(* over the reserved characters, the underscore, a letter and a space.     *)
(***************************************************************************)
Chars == InvalidChars \cup {"_", "a", " "}

Strings == UNION {[1..n -> Chars] : n \in 0..MaxLen}

InitSanitize ==
    /\ config = [client_id |-> <<>>, client_secret |-> <<>>]
    /\ choice = ""
    /\ url = <<>>
    /\ pc = "menu"
    /\ files = {}
    /\ dirs = {}
    /\ match_id = <<>>
    /\ full_path = <<>>
    /\ tracks = <<>>
    /\ next = 0
    /\ i = 0
    /\ successful_downloads = 0
    /\ skipped_downloads = 0
    /\ failed_downloads = 0
    /\ console = <<>>
    /\ catalog = <<>>
    /\ preexisting = {}
    /\ catalogCalls = 0
    /\ served = 0
    /\ mkdirs = 0
    /\ existChecks = 0
    /\ outcomes = <<>>
    /\ catalogFailed = FALSE
    /\ runs = 0
    /\ completed = 0
    /\ faithful = TRUE
    /\ sanIn \in Strings
    /\ sanOut = <<>>

\* sanitize_filename is applied to the input, then to its own output.
ApplySanitize ==
    /\ Len(sanOut) < 2
    /\ sanOut' = Append(sanOut, sanitize_filename(IF sanOut = <<>> THEN sanIn
                                                  ELSE sanOut[Len(sanOut)]))
    /\ UNCHANGED <<menuVars, pc, diskVars, localVars, counterVars, console,
                   envVars, callHistory, sessionHistory, sanIn>>

NextSanitize == ApplySanitize

SpecSanitize == InitSanitize /\ [][NextSanitize]_vars

(***************************************************************************)
(* Properties.                                                             *)
(***************************************************************************)
\* The number of entries of `items` whose track is not null.
NonNull(items) == Cardinality({k \in 1..Len(items) : items[k].track # None})

\* The number of lines log() printed at level "error".
ErrorLines == Cardinality({k \in 1..Len(console) : console[k].level = "error"})

\* The final counts have been emitted: the summary is the console's last line.
SummaryEmitted ==
    /\ console # <<>>
    /\ console[Len(console)].msg = "DownloadComplete"

\* The counts printed by the summary line.
FinalCounts == console[Len(console)].counts

\* No line of the console is a summary.
NoSummary == \A k \in 1..Len(console) : console[k].msg # "DownloadComplete"

\* The reserved characters < > : " / \ | ? *
Reserved == {"<", ">", ":", "\"", "/", "\\", "|", "?", "*"}

\* <playlist dir>/sanitize("<artists> - <title>") + ".mp3"
ExpectedFile(dir, track) ==
    dir \o <<"/">> \o sanitize_filename(Query(track)) \o <<".", "m", "p", "3">>

\* The input holds `.../playlist/<id>` or `playlist:<id>`, the identifier
\* being one or more letters or digits.
Recognized(input) ==
    \E p \in 1..Len(input) :
        /\ p + 9 <= Len(input)
        /\ \/ SubSeq(input, p, p + 8) = PlaylistSlash
           \/ SubSeq(input, p, p + 8) = PlaylistColon
        /\ input[p + 9] \in AlNum

\* The sum of the three counters.
Counted == successful_downloads + skipped_downloads + failed_downloads

\* C1: in the per-track loop Succeeded + Skipped + Failed is the number of
\* non-null tracks processed so far (the tracks before position i), and the
\* counts the summary prints add up to the number of non-null tracks.
C1_CountsPartitionTracks ==
    /\ pc \in {"loop", "download"} =>
        Counted = NonNull(SubSeq(tracks, 1, i - 1))
    /\ SummaryEmitted =>
        /\ FinalCounts = <<successful_downloads, skipped_downloads, failed_downloads>>
        /\ FinalCounts[1] + FinalCounts[2] + FinalCounts[3] = NonNull(tracks)

\* A run ended with a download that succeeded, one that failed and a skip.
C1_Witness ==
    /\ pc = "returned"
    /\ SummaryEmitted
    /\ successful_downloads >= 1
    /\ skipped_downloads >= 1
    /\ failed_downloads >= 1

\* The downloads of the call whose process did not exit with code 0.
FailedOutcomes == {k \in 1..Len(outcomes) : outcomes[k].result # "exit0"}

\* C2: a failed download (non-zero exit code, or an exception while
\* launching) adds exactly 1 to Failed, no track is downloaded twice, and
\* once a download has failed the call still goes through every track and
\* ends with the summary.
C2_FailureIsolated ==
    /\ failed_downloads = Cardinality(FailedOutcomes)
    /\ successful_downloads = Len(outcomes) - Cardinality(FailedOutcomes)
    /\ \A j, k \in 1..Len(outcomes) :
        j < k => outcomes[j].index < outcomes[k].index
    /\ FailedOutcomes # {} =>
        \/ /\ pc \in {"loop", "download"}
           /\ i <= Len(tracks) + 1
           /\ \A k \in 1..Len(outcomes) : outcomes[k].index <= i
        \/ /\ pc = "returned"
           /\ SummaryEmitted
           /\ i = Len(tracks) + 1
           /\ existChecks = NonNull(tracks)

\* A download raised, the next track was downloaded, the summary came.
C2_Witness ==
    /\ pc = "returned"
    /\ SummaryEmitted
    /\ Len(outcomes) >= 2
    /\ outcomes[1].result = "exception"
    /\ outcomes[2].result = "exit0"

\* C3: when the loop is at a non-null track whose file
\* <playlist dir>/sanitize("<artists> - <title>") + ".mp3" exists, the step
\* adds 1 to Skipped, leaves Succeeded and Failed alone, calls the fetcher
\* for no track and moves on to the next entry.
C3_ExistingFileSkipped ==
    [][(/\ pc = "loop"
        /\ i <= Len(tracks)
        /\ tracks[i].track # None
        /\ ExpectedFile(full_path, tracks[i].track) \in files)
       => (/\ skipped_downloads' = skipped_downloads + 1
           /\ successful_downloads' = successful_downloads
           /\ failed_downloads' = failed_downloads
           /\ outcomes' = outcomes
           /\ files' = files
           /\ pc' = "loop"
           /\ i' = i + 1)]_vars

\* A track with a reserved character in its title was skipped in a run that
\* started with its file on disk.
C3_Witness ==
    /\ pc = "loop"
    /\ i >= 2
    /\ tracks[i - 1].track = TrackB
    /\ ExpectedFile(full_path, TrackB) \in preexisting
    /\ skipped_downloads = NonNull(SubSeq(tracks, 1, i - 1))
    /\ outcomes = <<>>

\* C4: when the loop is at an entry whose track is null, the step changes
\* none of the three counters, checks no file, calls no fetcher and moves on
\* to the next entry.
C4_NullTrackIgnored ==
    [][(/\ pc = "loop"
        /\ i <= Len(tracks)
        /\ tracks[i].track = None)
       => (/\ successful_downloads' = successful_downloads
           /\ skipped_downloads' = skipped_downloads
           /\ failed_downloads' = failed_downloads
           /\ existChecks' = existChecks
           /\ outcomes' = outcomes
           /\ files' = files
           /\ tracks' = tracks
           /\ pc' = "loop"
           /\ i' = i + 1)]_vars

\* The "Road Trip" scenario: a track, a removed entry, a track, nothing on
\* disk; two downloads, the second of which fails.
C4_Witness ==
    /\ pc = "returned"
    /\ SummaryEmitted
    /\ tracks = <<[track |-> TrackA], [track |-> None], [track |-> TrackB]>>
    /\ preexisting = {}
    /\ Len(outcomes) = 2
    /\ FinalCounts = <<1, 0, 1>>

\* The call has left the pagination loop without an error.
PastPaging == pc \in {"loop", "download"} \/ (pc = "returned" /\ SummaryEmitted)

\* C5: the accumulated sequence is the concatenation, in page order, of the
\* pages served, so its length is the sum of their item counts; the loop is
\* left only when the cursor is null, which is when every page has been
\* requested and the sequence is the whole playlist; a playlist with no
\* tracks ends in a summary of (0, 0, 0) and no error.
C5_PaginationAccumulates ==
    /\ (pc = "paging" \/ PastPaging) =>
        /\ Len(tracks) = served
        /\ tracks = SubSeq(catalog, 1, served)
        /\ catalogCalls >= 1
    /\ PastPaging =>
        /\ next = 0
        /\ tracks = catalog
    /\ (pc = "paging" /\ next # 0) => (ENABLED NextPage /\ ~ENABLED PagingDone)
    /\ (pc = "paging" /\ next = 0) => (ENABLED PagingDone /\ ~ENABLED NextPage)
    /\ (PastPaging /\ catalog = <<>>) =>
        /\ tracks = <<>>
        /\ ErrorLines = 0
        /\ pc # "download"
        /\ pc = "loop" => ENABLED Summary
        /\ pc = "returned" => FinalCounts = <<0, 0, 0>>

\* A playlist of three items served in two pages has been fetched whole.
C5_Witness ==
    /\ pc = "loop"
    /\ catalogCalls = 2
    /\ Len(tracks) = 3
    /\ tracks = catalog

\* C6: a call of convert_spotify_playlist whose input holds neither
\* `.../playlist/<id>` nor `playlist:<id>` returns at once with the one
\* line "Invalid Spotify playlist URL": no catalog call, no directory, no
\* download, no summary.
C6_InvalidReferenceRejected ==
    (pc # "menu" /\ ~Recognized(url)) =>
        /\ pc = "returned"
        /\ console = <<Log("InvalidUrl", "error")>>
        /\ catalogCalls = 0
        /\ mkdirs = 0
        /\ existChecks = 0
        /\ outcomes = <<>>
        /\ NoSummary

\* The input "playlist/", which names no identifier, was refused.
C6_Witness ==
    /\ pc = "returned"
    /\ url = PlaylistSlash
    /\ console = <<Log("InvalidUrl", "error")>>

\* C7: once a catalog call has raised, the call has returned with exactly
\* one error line, no summary and no download, whatever was fetched before;
\* and no download happens before every page has been fetched.
C7_CatalogFailureAborts ==
    /\ catalogFailed =>
        /\ pc = "returned"
        /\ ErrorLines = 1
        /\ console[Len(console)] = Log("ErrorConverting", "error")
        /\ NoSummary
        /\ existChecks = 0
        /\ outcomes = <<>>
    /\ (pc = "download" \/ outcomes # <<>>) =>
        /\ next = 0
        /\ served = Len(catalog)
        /\ tracks = catalog

\* The second page's call raised after a first page with a track in it.
C7_Witness ==
    /\ catalogFailed
    /\ catalogCalls = 2
    /\ NonNull(tracks) >= 1

\* C8: with nothing on disk at the start and a fetcher that has always
\* succeeded and written sanitize(query) + ".mp3", a second completed run of
\* the playlist downloads nothing and counts every non-null track as Skipped.
C8_SecondRunSkipsAll ==
    (/\ pc = "returned"
     /\ SummaryEmitted
     /\ completed >= 2
     /\ faithful
     /\ preexisting = {}) =>
        /\ outcomes = <<>>
        /\ FinalCounts = <<0, NonNull(tracks), 0>>

\* The two-track scenario: the second run ends with Skipped = 2.
C8_Witness ==
    /\ pc = "returned"
    /\ SummaryEmitted
    /\ completed = 2
    /\ faithful
    /\ preexisting = {}
    /\ tracks = <<[track |-> TrackA], [track |-> TrackB]>>
    /\ FinalCounts = <<0, 2, 0>>

\* sanitize(x), once sanitize_filename has been applied to the input x.
Sanitized == sanOut[1]

\* C9 as stated: the output has the input's length, no reserved character,
\* an underscore at exactly the positions where the input had a reserved
\* character, every other character unchanged; sanitizing twice changes
\* nothing more.
C9_UnderscoreExactlyAtReserved ==
    Len(sanOut) >= 1 =>
        /\ Len(Sanitized) = Len(sanIn)
        /\ \A k \in 1..Len(sanIn) :
            /\ Sanitized[k] \notin Reserved
            /\ (Sanitized[k] = "_") <=> (sanIn[k] \in Reserved)
            /\ sanIn[k] \notin Reserved => Sanitized[k] = sanIn[k]
        /\ Len(sanOut) >= 2 => sanOut[2] = Sanitized

\* C9, amended: the output has the input's length, no reserved character,
\* an underscore at every position where the input had a reserved character,
\* every other character (an underscore of the input included) unchanged;
\* sanitizing twice changes nothing more.
C9_SanitizeTotalIdempotent ==
    Len(sanOut) >= 1 =>
        /\ Len(Sanitized) = Len(sanIn)
        /\ \A k \in 1..Len(sanIn) :
            /\ Sanitized[k] \notin Reserved
            /\ sanIn[k] \in Reserved => Sanitized[k] = "_"
            /\ sanIn[k] \notin Reserved => Sanitized[k] = sanIn[k]
        /\ Len(sanOut) >= 2 => sanOut[2] = Sanitized

\* A string with a reserved character, an underscore and a letter has been
\* sanitized twice.
C9_Witness ==
    /\ sanIn = <<"*", "_", "a">>
    /\ sanOut = << <<"_", "_", "a">>, <<"_", "_", "a">> >>

\* C10: while the client id or the client secret is empty, no conversion is
\* under way or has been made (no catalog call, no directory, no download),
\* and choice "1" leaves the one line "credentials not set" on the console,
\* which is not the line of a failed catalog call.
C10_UnconfiguredRefused ==
    (config.client_id = <<>> \/ config.client_secret = <<>>) =>
        /\ pc = "menu"
        /\ runs = 0
        /\ catalogCalls = 0
        /\ mkdirs = 0
        /\ existChecks = 0
        /\ outcomes = <<>>
        /\ files = preexisting
        /\ choice = "1" =>
            /\ console = <<Log("CredentialsNotSet", "error")>>
            /\ \A k \in 1..Len(console) : console[k].msg # "ErrorConverting"

\* Choice "1" was refused with a client id but no client secret.
C10_Witness ==
    /\ config.client_id # <<>>
    /\ config.client_secret = <<>>
    /\ choice = "1"
    /\ console = <<Log("CredentialsNotSet", "error")>>

====
